---- MODULE Spec2Model ----
(***************************************************************************)
(* Akamai platform adapter of talos: the identity-override reconciler      *)
(* (ensureValidUUID, isInvalidUUID, generateLinodeUUID) and the            *)
(* orchestration of NetworkConfiguration, modelled from                    *)
(* internal/app/machined/pkg/runtime/v1alpha1/platform/akamai/akamai.go.   *)
(*                                                                         *)
(* Strings are sequences of one-character strings, so that lengths and     *)
(* character offsets are observable.  A Go int (64 bits on the supported   *)
(* platforms) is a sign and a magnitude of four 16-bit limbs, most         *)
(* significant first; decimal formatting is computed by repeated division  *)
(* by ten, as fmt does.                                                    *)
(***************************************************************************)
EXTENDS Integers, Sequences, FiniteSets, TLC

(***************************************************************************)
(* Bounds of the model.                                                    *)
(***************************************************************************)
\* Number of invocations (of ensureValidUUID, or of NetworkConfiguration).
NumCalls == 2

Calls == 1..NumCalls

\* Number of store operations that fail with an error other than not-found
\* and conflict, over all invocations.
MaxFaults == 2

\* Capacity of the channel that NetworkConfiguration sends on.
ChanCap == 1

(***************************************************************************)
(* Go int: sign and magnitude, limbs of 16 bits.                           *)
(***************************************************************************)
LimbBase == 2^16

\* 64 bits in limbs of 16.
NumLimbs == 4

ZeroMag == [k \in 1..NumLimbs |-> 0]

\* An int of small absolute value (below 2^31).
Small(n) ==
    LET a == IF n < 0 THEN -n ELSE n
    IN  [neg |-> n < 0, mag |-> <<0, 0, a \div LimbBase, a % LimbBase>>]

\* 1000000000000 = 10^12 = 232 * 2^32 + 54437 * 2^16 + 4096
ID1000000000000 == [neg |-> FALSE, mag |-> <<0, 232, 54437, 4096>>]

IsPositive(n) == ~n.neg /\ n.mag # ZeroMag

(***************************************************************************)
(* String literals of the source.                                          *)
(***************************************************************************)
EmptyString == << >>

\* "00000000-0000-0000-0000-000000000000"
ZeroUUID ==
    <<"0", "0", "0", "0", "0", "0", "0", "0", "-", "0", "0", "0", "0", "-",
      "0", "0", "0", "0", "-", "0", "0", "0", "0", "-",
      "0", "0", "0", "0", "0", "0", "0", "0", "0", "0", "0", "0">>

\* "00000000-0000-0000-0000-"
UUIDPrefix ==
    <<"0", "0", "0", "0", "0", "0", "0", "0", "-", "0", "0", "0", "0", "-",
      "0", "0", "0", "0", "-", "0", "0", "0", "0", "-">>

\* "not-available-yet"
NotAvailableYet ==
    <<"n", "o", "t", "-", "a", "v", "a", "i", "l", "a", "b", "l", "e", "-",
      "y", "e", "t">>

\* "550e8400-e29b-41d4-a716-446655440000" (the tests' valid hardware UUID)
ValidUUID ==
    <<"5", "5", "0", "e", "8", "4", "0", "0", "-", "e", "2", "9", "b", "-",
      "4", "1", "d", "4", "-", "a", "7", "1", "6", "-",
      "4", "4", "6", "6", "5", "5", "4", "4", "0", "0", "0", "0">>

\* "existing-uuid-should-not-change" (the tests' pre-existing override)
ExistingUUID ==
    <<"e", "x", "i", "s", "t", "i", "n", "g", "-", "u", "u", "i", "d", "-",
      "s", "h", "o", "u", "l", "d", "-", "n", "o", "t", "-",
      "c", "h", "a", "n", "g", "e">>

DigitChars == <<"0", "1", "2", "3", "4", "5", "6", "7", "8", "9">>

(***************************************************************************)
(* fmt.Sprintf("%012d", n)                                                 *)
(***************************************************************************)
\* Width of the %012d verb.
PadWidth == 12

\* Quotient and remainder of a magnitude divided by ten (long division).
DivMod10(mag) ==
    LET step[k \in 0..Len(mag)] ==
            IF k = 0 THEN [q |-> << >>, r |-> 0]
            ELSE LET prev == step[k - 1]
                     cur  == prev.r * LimbBase + mag[k]
                 IN  [q |-> Append(prev.q, cur \div 10), r |-> cur % 10]
    IN  step[Len(mag)]

\* The decimal digits of a magnitude, without leading zeros ("0" for zero).
RECURSIVE FormatUint(_)
FormatUint(mag) ==
    LET dm == DivMod10(mag)
    IN  IF dm.q = ZeroMag THEN <<DigitChars[dm.r + 1]>>
        ELSE FormatUint(dm.q) \o <<DigitChars[dm.r + 1]>>

Zeros(k) == [j \in 1..k |-> "0"]

\* %<width>d: the padding is made of spaces.
SprintfPadSpace(n, width) ==
    LET digits == FormatUint(n.mag)
        prec   == IF n.neg THEN width - 1 ELSE width
    IN  (IF Len(digits) < prec THEN [j \in 1..(prec - Len(digits)) |-> " "] ELSE << >>)
            \o (IF n.neg THEN <<"-">> ELSE << >>) \o digits

\* %0<width>d: the sign takes one column of the width; the digits are padded
\* with zeros up to the rest, and never truncated.
SprintfPad0(n, width) ==
    LET digits == FormatUint(n.mag)
        prec   == IF n.neg THEN width - 1 ELSE width
        padded == IF Len(digits) < prec
                    THEN Zeros(prec - Len(digits)) \o digits
                    ELSE digits
    IN  (IF n.neg THEN <<"-">> ELSE << >>) \o padded

(***************************************************************************)
(* isInvalidUUID, generateLinodeUUID                                       *)
(***************************************************************************)
\* isInvalidUUID without the all-zero comparison.
isInvalidUUIDEmptyOnly(uuid) ==
    IF uuid = EmptyString THEN TRUE
    ELSE FALSE

\* isInvalidUUID with the all-zero comparison inverted.
isInvalidUUIDInverted(uuid) ==
    IF uuid = EmptyString THEN TRUE
    ELSE IF uuid # ZeroUUID THEN TRUE
    ELSE FALSE

isInvalidUUID(uuid) ==
    IF uuid = EmptyString THEN TRUE
    ELSE IF uuid = ZeroUUID THEN TRUE
    ELSE FALSE

\* generateLinodeUUID with %d in place of %012d.
generateLinodeUUIDUnpadded(linodeID) ==
    LET linodeIDStr == SprintfPad0(linodeID, 0)
    IN  UUIDPrefix \o linodeIDStr

generateLinodeUUID(linodeID) ==
    LET linodeIDStr == SprintfPad0(linodeID, PadWidth)
    IN  UUIDPrefix \o linodeIDStr

(***************************************************************************)
(* The resource store, as ensureValidUUID consumes it: Get returns the     *)
(* record, a not-found error or another error; Create is atomic and fails  *)
(* with a conflict error when the record exists, or with another error.    *)
(***************************************************************************)
\* Errors other than not-found and conflict: the code tells errors apart only
\* by IsNotFoundError and IsConflictError, so one stands for all of them (a
\* context deadline or cancellation included).
OtherErrors == {"DeadlineExceeded"}

NoRecord == [present |-> FALSE, value |-> EmptyString]

Record(v) == [present |-> TRUE, value |-> v]

IsNotFoundError(err) == err = "NotFound"

IsConflictError(err) == err = "Conflict"

\* The store operation's outcome is possible within the bound on failures.
Admitted(err, n) == err \in OtherErrors => n < MaxFaults

Counted(err, n) == IF err \in OtherErrors THEN n + 1 ELSE n

\* The outcomes of a Get of a record: what the store holds, or a failure.
GetOutcomes(rec) ==
    {[err |-> IF rec.present THEN "nil" ELSE "NotFound", res |-> rec]}
        \cup {[err |-> e, res |-> NoRecord] : e \in OtherErrors}

\* The outcomes of a Create: [err, the record the store holds afterwards].
CreateOutcomes(rec, v) ==
    {IF rec.present THEN [err |-> "Conflict", after |-> rec]
                    ELSE [err |-> "nil", after |-> Record(v)]}
        \cup {[err |-> e, after |-> rec] : e \in OtherErrors}

(***************************************************************************)
(* net/netip, as ParseMetadata uses it.  An Addr is the zero Addr, an IPv4 *)
(* address of four bytes or an IPv6 address of eight 16-bit groups; a      *)
(* Prefix is an Addr and a number of bits.  Zones and IPv4-in-IPv6         *)
(* addresses are not modelled.                                             *)
(***************************************************************************)
ZeroAddr == [is |-> "zero", parts |-> << >>]

Addr4(bytes) == [is |-> "4", parts |-> bytes]

Addr6(groups) == [is |-> "6", parts |-> groups]

\* netip.Prefix{}
ZeroPrefix == [ip |-> ZeroAddr, bits |-> 0]

PrefixFrom(ip, bits) == [ip |-> ip, bits |-> bits]

\* "fe80::abcd:1/64"
LinkLocalABCD ==
    <<"f", "e", "8", "0", ":", ":", "a", "b", "c", "d", ":", "1", "/", "6", "4">>

\* "invalid Prefix": the textual form of the zero netip.Prefix
InvalidPrefix ==
    <<"i", "n", "v", "a", "l", "i", "d", " ", "P", "r", "e", "f", "i", "x">>

\* "invalid IP": the textual form of the zero netip.Addr
InvalidIP == <<"i", "n", "v", "a", "l", "i", "d", " ", "I", "P">>

HexChars ==
    {"0", "1", "2", "3", "4", "5", "6", "7", "8", "9",
     "a", "b", "c", "d", "e", "f", "A", "B", "C", "D", "E", "F"}

HexDigits ==
    <<"0", "1", "2", "3", "4", "5", "6", "7", "8", "9", "a", "b", "c", "d", "e", "f">>

UpperHexDigits ==
    <<"0", "1", "2", "3", "4", "5", "6", "7", "8", "9", "A", "B", "C", "D", "E", "F">>

\* strconv.Itoa and %d: the decimal digits, after a minus sign when negative.
FormatInt(n) == (IF n.neg THEN <<"-">> ELSE << >>) \o FormatUint(n.mag)

\* A group of an IPv6 address in hexadecimal, without leading zeros.
RECURSIVE FormatHex(_)
FormatHex(n) ==
    IF n < 16 THEN <<HexDigits[n + 1]>>
    ELSE FormatHex(n \div 16) \o <<HexDigits[(n % 16) + 1]>>

\* The texts of a sequence, joined by a separator.
RECURSIVE Join(_, _)
Join(texts, sep) ==
    IF texts = << >> THEN << >>
    ELSE IF Len(texts) = 1 THEN texts[1]
    ELSE texts[1] \o sep \o Join(Tail(texts), sep)

\* The longest run of zero groups, of two groups or more, the first of the
\* longest: its first group and the group after its last (0, 0 when none).
ZeroRun(groups) ==
    LET zeros[i \in 1..(Len(groups) + 1)] ==
            IF i > Len(groups) \/ groups[i] # 0 THEN 0 ELSE 1 + zeros[i + 1]
        len  == [i \in 1..Len(groups) |-> zeros[i]]
        runs == {i \in 1..Len(groups) : len[i] >= 2}
    IN  IF runs = {} THEN [start |-> 0, end |-> 0]
        ELSE LET start == CHOOSE i \in runs :
                            \A m \in runs :
                                len[i] > len[m] \/ (len[i] = len[m] /\ i <= m)
             IN  [start |-> start, end |-> start + len[start]]

\* Addr.String()
AddrString(ip) ==
    IF ip.is = "zero" THEN InvalidIP
    ELSE IF ip.is = "4"
      THEN Join([k \in 1..4 |-> FormatInt(Small(ip.parts[k]))], <<".">>)
    ELSE LET run == ZeroRun(ip.parts)
             hex(from, to) ==
                Join([k \in 1..(to - from + 1) |-> FormatHex(ip.parts[from + k - 1])],
                     <<":">>)
         IN  IF run.start = 0 THEN hex(1, 8)
             ELSE hex(1, run.start - 1) \o <<":", ":">> \o hex(run.end, 8)

\* Prefix.String()
PrefixString(prefix) ==
    IF prefix.ip.is = "zero" THEN InvalidPrefix
    ELSE AddrString(prefix.ip) \o <<"/">> \o FormatInt(Small(prefix.bits))

\* strings.Split(s, sep), for a separator of one character.
RECURSIVE Split(_, _)
Split(s, sep) ==
    LET seps == {k \in 1..Len(s) : s[k] = sep}
    IN  IF seps = {} THEN <<s>>
        ELSE LET first == CHOOSE k \in seps : \A m \in seps : k <= m
             IN  <<SubSeq(s, 1, first - 1)>> \o Split(SubSeq(s, first + 1, Len(s)), sep)

\* strings.Split(s, ":")[0]: the text before the first colon (all of it when
\* there is none).
FirstSegment(s) ==
    LET colons == {k \in 1..Len(s) : s[k] = ":"}
        first  == IF colons = {} THEN Len(s) + 1
                  ELSE CHOOSE k \in colons : \A m \in colons : k <= m
    IN  SubSeq(s, 1, first - 1)

\* The value of a text of decimal digits.
RECURSIVE DecValue(_)
DecValue(t) ==
    IF t = << >> THEN 0
    ELSE 10 * DecValue(SubSeq(t, 1, Len(t) - 1))
            + (CHOOSE d \in 0..9 : DigitChars[d + 1] = t[Len(t)])

\* The value of a text of hexadecimal digits of either case.
RECURSIVE HexValue(_)
HexValue(t) ==
    IF t = << >> THEN 0
    ELSE 16 * HexValue(SubSeq(t, 1, Len(t) - 1))
            + (CHOOSE d \in 0..15 :
                    HexDigits[d + 1] = t[Len(t)] \/ UpperHexDigits[d + 1] = t[Len(t)])

\* A field of a dotted quad: one to three digits, no leading zero, at most 255.
IsIPv4Field(t) ==
    /\ Len(t) \in 1..3
    /\ \A k \in 1..Len(t) : \E d \in 0..9 : DigitChars[d + 1] = t[k]
    /\ Len(t) > 1 => t[1] # "0"
    /\ DecValue(t) <= 255

\* A group of an IPv6 text: one to four hexadecimal digits.
IsIPv6Field(t) ==
    /\ Len(t) \in 1..4
    /\ \A k \in 1..Len(t) : t[k] \in HexChars

ParseFailed == [ok |-> FALSE, ip |-> ZeroAddr]

ParseIPv4(s) ==
    LET fields == Split(s, ".")
    IN  IF Len(fields) = 4 /\ \A k \in 1..4 : IsIPv4Field(fields[k])
          THEN [ok |-> TRUE, ip |-> Addr4([k \in 1..4 |-> DecValue(fields[k])])]
          ELSE ParseFailed

\* The groups are separated by colons; one "::" stands for one group of
\* zeros or more.
ParseIPv6(s) ==
    LET ellipses == {k \in 1..(Len(s) - 1) : s[k] = ":" /\ s[k + 1] = ":"}
        fieldsOf(t) == IF t = << >> THEN << >> ELSE Split(t, ":")
        values(fs) == [k \in 1..Len(fs) |-> HexValue(fs[k])]
    IN  IF ellipses = {}
          THEN LET fields == Split(s, ":")
               IN  IF Len(fields) = 8 /\ \A k \in 1..8 : IsIPv6Field(fields[k])
                     THEN [ok |-> TRUE, ip |-> Addr6(values(fields))]
                     ELSE ParseFailed
        ELSE IF Cardinality(ellipses) > 1 THEN ParseFailed
        ELSE LET e == CHOOSE k \in ellipses : TRUE
                 left == fieldsOf(SubSeq(s, 1, e - 1))
                 right == fieldsOf(SubSeq(s, e + 2, Len(s)))
             IN  IF /\ Len(left) + Len(right) <= 7
                    /\ \A k \in 1..Len(left) : IsIPv6Field(left[k])
                    /\ \A k \in 1..Len(right) : IsIPv6Field(right[k])
                   THEN [ok |-> TRUE,
                         ip |-> Addr6(values(left)
                                        \o [k \in 1..(8 - Len(left) - Len(right)) |-> 0]
                                        \o values(right))]
                   ELSE ParseFailed

\* netip.ParseAddr: the first of '.', ':' and '%' in the text decides how it
\* is parsed; a text with none of them is not an address.
ParseAddr(s) ==
    LET marks == {k \in 1..Len(s) : s[k] \in {".", ":", "%"}}
    IN  IF marks = {} THEN ParseFailed
        ELSE LET first == CHOOSE k \in marks : \A m \in marks : k <= m
             IN  IF s[first] = "." THEN ParseIPv4(s)
                 ELSE IF s[first] = ":" THEN ParseIPv6(s)
                 ELSE ParseFailed

(***************************************************************************)
(* ParseMetadata                                                           *)
(***************************************************************************)
\* The text handed to netip.ParseAddr for the gateway.
GatewayText(linkLocal) == FirstSegment(linkLocal) \o <<":", ":", "1">>

\* netip.ParseAddr on a text <segment>::1.
ParsesAsAddr(segment) == ParseAddr(segment \o <<":", ":", "1">>).ok

\* HostnameSpecSpec.ParseFQDN: nil, or an error for a malformed name.
MalformedLabels == {"-not a hostname-"}

ParseFQDN(label) == IF label \in MalformedLabels THEN "invalid hostname" ELSE "nil"

\* The error of ParseMetadata when the error of netip.ParseAddr is dropped.
ParseMetadataErrorOfLabelOnly(metadata, interfaceAddresses) ==
    IF metadata.Label # "" /\ ParseFQDN(metadata.Label) # "nil"
      THEN ParseFQDN(metadata.Label)
    ELSE "nil"

\* The error of ParseMetadata ("nil" when it returns a configuration).
ParseMetadataError(metadata, interfaceAddresses) ==
    IF metadata.Label # "" /\ ParseFQDN(metadata.Label) # "nil"
      THEN ParseFQDN(metadata.Label)
    ELSE IF ~ParsesAsAddr(FirstSegment(PrefixString(interfaceAddresses.IPv6.LinkLocal)))
      THEN "unable to parse IP"
    ELSE "nil"

\* The configuration ParseMetadata returns: nil with an error.
NilConfig == [nil |-> TRUE]

\* networkConfig.Hostnames
Hostnames(metadata) ==
    IF metadata.Label # ""
      THEN <<[ConfigLayer |-> "ConfigPlatform", FQDN |-> metadata.Label]>>
      ELSE << >>

AddressSpecSpec(iface, scope, flags, family) ==
    [ConfigLayer |-> "ConfigPlatform",
     LinkName    |-> "eth0",
     Address     |-> iface,
     Scope       |-> scope,
     Flags       |-> flags,
     Family      |-> family]

\* networkConfig.Addresses, with another flag on the IPv6 ranges.
AddressesRangesPermanent(interfaceAddresses) ==
    LET public  == interfaceAddresses.IPv4.Public
        private == interfaceAddresses.IPv4.Private
        ranges  == interfaceAddresses.IPv6.Ranges
    IN  [k \in 1..Len(public) |->
            AddressSpecSpec(public[k], "ScopeGlobal", {"AddressPermanent"}, "FamilyInet4")]
        \o [k \in 1..Len(private) |->
            AddressSpecSpec(private[k], "ScopeGlobal", {"AddressPermanent"}, "FamilyInet4")]
        \o [k \in 1..Len(ranges) |->
            AddressSpecSpec(ranges[k], "ScopeGlobal", {"AddressPermanent"}, "FamilyInet6")]
        \o <<AddressSpecSpec(interfaceAddresses.IPv6.LinkLocal, "ScopeLink", {},
                             "FamilyInet6")>>

\* networkConfig.Addresses
Addresses(interfaceAddresses) ==
    LET public  == interfaceAddresses.IPv4.Public
        private == interfaceAddresses.IPv4.Private
        ranges  == interfaceAddresses.IPv6.Ranges
    IN  [k \in 1..Len(public) |->
            AddressSpecSpec(public[k], "ScopeGlobal", {"AddressPermanent"}, "FamilyInet4")]
        \o [k \in 1..Len(private) |->
            AddressSpecSpec(private[k], "ScopeGlobal", {"AddressPermanent"}, "FamilyInet4")]
        \o [k \in 1..Len(ranges) |->
            AddressSpecSpec(ranges[k], "ScopeGlobal", {"AddressManagementTemp"},
                            "FamilyInet6")]
        \o <<AddressSpecSpec(interfaceAddresses.IPv6.LinkLocal, "ScopeLink", {},
                             "FamilyInet6")>>

\* publicIPs with the private addresses added to it as well.
PublicIPsWithPrivate(interfaceAddresses) ==
    [k \in 1..Len(interfaceAddresses.IPv4.Public) |->
        AddrString(interfaceAddresses.IPv4.Public[k].ip)]
    \o [k \in 1..Len(interfaceAddresses.IPv4.Private) |->
        AddrString(interfaceAddresses.IPv4.Private[k].ip)]
    \o [k \in 1..Len(interfaceAddresses.IPv6.Ranges) |->
        AddrString(interfaceAddresses.IPv6.Ranges[k].ip)]

\* publicIPs, once the three loops are over.
PublicIPs(interfaceAddresses) ==
    [k \in 1..Len(interfaceAddresses.IPv4.Public) |->
        AddrString(interfaceAddresses.IPv4.Public[k].ip)]
    \o [k \in 1..Len(interfaceAddresses.IPv6.Ranges) |->
        AddrString(interfaceAddresses.IPv6.Ranges[k].ip)]

\* networkConfig.ExternalIPs: the texts of publicIPs that parse.
ExternalIPs(interfaceAddresses) ==
    LET publicIPs == PublicIPs(interfaceAddresses)
        parsed    == [k \in 1..Len(publicIPs) |-> ParseAddr(publicIPs[k])]
        kept      == SelectSeq(parsed, LAMBDA r : r.ok)
    IN  [k \in 1..Len(kept) |-> kept[k].ip]

\* RouteSpecSpec.Normalize: the route, canonicalized.
Normalize(route) == [route EXCEPT !.Normalized = TRUE]

\* The gateway taken from the first public address instead.
GatewayOfFirstPublic(interfaceAddresses) ==
    IF interfaceAddresses.IPv4.Public # << >>
      THEN interfaceAddresses.IPv4.Public[1].ip
      ELSE ParseAddr(GatewayText(PrefixString(interfaceAddresses.IPv6.LinkLocal))).ip

\* ipv6gw
Gateway(interfaceAddresses) ==
    ParseAddr(GatewayText(PrefixString(interfaceAddresses.IPv6.LinkLocal))).ip

\* networkConfig.Routes
Routes(interfaceAddresses) ==
    <<Normalize([ConfigLayer |-> "ConfigPlatform",
                 Gateway     |-> Gateway(interfaceAddresses),
                 OutLinkName |-> "eth0",
                 Destination |-> interfaceAddresses.IPv6.LinkLocal,
                 Table       |-> "TableMain",
                 Protocol    |-> "ProtocolStatic",
                 Type        |-> "TypeUnicast",
                 Family      |-> "FamilyInet6",
                 Priority    |-> 1024,
                 Normalized  |-> FALSE])>>

\* "linode://"
ProviderIDScheme == <<"l", "i", "n", "o", "d", "e", ":", "/", "/">>

\* networkConfig.Metadata
PlatformMetadataSpec(metadata) ==
    [Platform     |-> "akamai",
     Hostname     |-> metadata.Label,
     Region       |-> metadata.Region,
     InstanceType |-> metadata.Type,
     InstanceID   |-> FormatInt(metadata.ID),
     ProviderID   |-> ProviderIDScheme \o FormatInt(metadata.ID)]

ParseMetadata(metadata, interfaceAddresses) ==
    LET err == ParseMetadataError(metadata, interfaceAddresses)
    IN  IF err # "nil" THEN [cfg |-> NilConfig, err |-> err]
      ELSE [cfg |-> [nil         |-> FALSE,
                     Hostnames   |-> Hostnames(metadata),
                     Addresses   |-> Addresses(interfaceAddresses),
                     Routes      |-> Routes(interfaceAddresses),
                     ExternalIPs |-> ExternalIPs(interfaceAddresses),
                     Metadata    |-> PlatformMetadataSpec(metadata)],
            err |-> "nil"]

(***************************************************************************)
(* Inputs                                                                  *)
(***************************************************************************)
LinodeIDs ==
    {Small(-1), Small(0), Small(12345), Small(79475478), ID1000000000000}

InitOverrides == {NoRecord, Record(EmptyString), Record(ExistingUUID)}

InitSystemInformation ==
    {NoRecord, Record(EmptyString), Record(ZeroUUID), Record(ValidUUID)}

\* 192.0.2.10/24
Public1 == PrefixFrom(Addr4(<<192, 0, 2, 10>>), 24)

\* 198.51.100.7/24
Public2 == PrefixFrom(Addr4(<<198, 51, 100, 7>>), 24)

\* 192.168.128.5/17
Private1 == PrefixFrom(Addr4(<<192, 168, 128, 5>>), 17)

\* 2001:db8::1/64
Range1 == PrefixFrom(Addr6(<<8193, 3512, 0, 0, 0, 0, 0, 1>>), 64)

\* 2600:3c00:0:1::/64
Range2 == PrefixFrom(Addr6(<<9728, 15360, 0, 1, 0, 0, 0, 0>>), 64)

\* fe80::abcd:1/64
LinkLocal1 == PrefixFrom(Addr6(<<65152, 0, 0, 0, 0, 0, 43981, 1>>), 64)

\* fe80::1/64
LinkLocal2 == PrefixFrom(Addr6(<<65152, 0, 0, 0, 0, 0, 0, 1>>), 64)

\* 169.254.10.1/16: an IPv4 prefix where the IPv6 link-local one is expected
LinkLocal3 == PrefixFrom(Addr4(<<169, 254, 10, 1>>), 16)

\* What GetInstance and GetNetwork of the metadata service may return.
InstanceData ==
    {[ID |-> Small(0), Label |-> "", Region |-> "", Type |-> ""],
     [ID |-> Small(79475478), Label |-> "talos-akamai",
      Region |-> "us-east", Type |-> "g6-standard-2"],
     [ID |-> Small(12345), Label |-> "-not a hostname-",
      Region |-> "us-east", Type |-> "g6-standard-2"]}

NetworkData ==
    {[IPv4 |-> [Public |-> <<Public1>>, Private |-> <<Private1>>],
      IPv6 |-> [Ranges |-> <<Range1>>, LinkLocal |-> LinkLocal1]],
     [IPv4 |-> [Public |-> << >>, Private |-> << >>],
      IPv6 |-> [Ranges |-> << >>, LinkLocal |-> ZeroPrefix]]}

NoInstanceData == [ID |-> Small(0), Label |-> "", Region |-> "", Type |-> ""]

NoNetworkData ==
    [IPv4 |-> [Public |-> << >>, Private |-> << >>],
     IPv6 |-> [Ranges |-> << >>, LinkLocal |-> ZeroPrefix]]

(***************************************************************************)
(* State                                                                   *)
(***************************************************************************)
VARIABLES
    override,       \* the MetaKey record of meta.UUIDOverride in the store
    sysinfo,        \* the hardware.SystemInformation record in the store
    pc,             \* per invocation: position in ensureValidUUID
    linodeID,       \* per invocation: the linodeID argument
    currentUUID,    \* per invocation: local currentUUID
    ret,            \* per invocation: the error ensureValidUUID returned
    log,            \* per invocation: the store operations issued, in order
    ovAtCall,       \* per invocation: the override record when it was called
    faults,         \* store operations that failed with one of OtherErrors
    npc,            \* per invocation: position in NetworkConfiguration
    metadata,       \* per invocation: what GetInstance returned
    network,        \* per invocation: what GetNetwork returned
    networkConfig,  \* per invocation: what ParseMetadata returned
    nret,           \* per invocation: the error NetworkConfiguration returned
    nlog,           \* per invocation: the steps that ran, with their errors
    ctxDone,        \* per invocation: its context is cancelled
    ch,             \* the channel: the configurations sent and not yet received
    received,       \* the senders of the configurations the consumer received
    genArgs,        \* generateLinodeUUID under test: the two ids it is given
    genResults,     \* the two values it returned, with isInvalidUUID of each
    parseArgs,      \* ParseMetadata under test: its two arguments
    parseResult     \* what it returned

evars == <<override, sysinfo, pc, linodeID, currentUUID, ret, log, ovAtCall, faults>>

nvars == <<npc, metadata, network, networkConfig, nret, nlog, ctxDone, ch, received>>

pvars == <<genArgs, genResults, parseArgs, parseResult>>

vars == <<override, sysinfo, pc, linodeID, currentUUID, ret, log, ovAtCall, faults,
          npc, metadata, network, networkConfig, nret, nlog, ctxDone, ch, received,
          genArgs, genResults, parseArgs, parseResult>>

\* A function under test that has not been applied yet.
NotCalled == [called |-> FALSE]

NilError == [msg |-> "", uuid |-> EmptyString, cause |-> "nil"]

Errorf(msg, uuid, cause) == [msg |-> msg, uuid |-> uuid, cause |-> cause]

Init ==
    /\ override \in InitOverrides
    /\ sysinfo \in InitSystemInformation
    /\ pc = [i \in Calls |-> "idle"]
    /\ linodeID = [i \in Calls |-> Small(0)]
    /\ currentUUID = [i \in Calls |-> EmptyString]
    /\ ret = [i \in Calls |-> NilError]
    /\ log = [i \in Calls |-> << >>]
    /\ ovAtCall = [i \in Calls |-> NoRecord]
    /\ faults = 0
    /\ npc = [i \in Calls |-> "idle"]
    /\ metadata = [i \in Calls |-> NoInstanceData]
    /\ network = [i \in Calls |-> NoNetworkData]
    /\ networkConfig = [i \in Calls |-> NilConfig]
    /\ nret = [i \in Calls |-> "nil"]
    /\ nlog = [i \in Calls |-> << >>]
    /\ ctxDone = [i \in Calls |-> FALSE]
    /\ ch = << >>
    /\ received = << >>
    /\ genArgs = <<Small(0), Small(0)>>
    /\ genResults = NotCalled
    /\ parseArgs = [metadata |-> NoInstanceData, interfaceAddresses |-> NoNetworkData]
    /\ parseResult = NotCalled

(***************************************************************************)
(* ensureValidUUID                                                         *)
(***************************************************************************)
\* Entry: ensureValidUUID(ctx, r, id).
Enter(i, id) ==
    /\ pc[i] = "idle"
    /\ pc' = [pc EXCEPT ![i] = "getOverride"]
    /\ linodeID' = [linodeID EXCEPT ![i] = id]
    /\ ovAtCall' = [ovAtCall EXCEPT ![i] = override]
    /\ UNCHANGED <<override, sysinfo, currentUUID, ret, log, faults>>
    /\ UNCHANGED pvars

\* A direct call, as the tests make it.
Call(i, id) ==
    /\ npc[i] = "idle"
    /\ Enter(i, id)
    /\ UNCHANGED nvars

\* The test of the first read with the comparison of the value inverted.
OverrideAlreadySetWhenEmpty(err, value) == err = "nil" /\ value = EmptyString

\* The test of the first read: an override that is already set.
OverrideAlreadySet(err, value) == err = "nil" /\ value # EmptyString

\* safe.ReaderGetByID of the UUID override and the early return.
GetOverride(i) ==
    /\ pc[i] = "getOverride"
    /\ \E out \in GetOutcomes(override) :
        /\ Admitted(out.err, faults)
        /\ faults' = Counted(out.err, faults)
        /\ log' = [log EXCEPT ![i] = Append(@, [op |-> "GetOverride", err |-> out.err])]
        /\ IF OverrideAlreadySet(out.err, out.res.value)
             THEN /\ pc' = [pc EXCEPT ![i] = "done"]
                  /\ ret' = [ret EXCEPT ![i] = NilError]
             ELSE /\ pc' = [pc EXCEPT ![i] = "getSystemInformation"]
                  /\ UNCHANGED ret
    /\ UNCHANGED <<override, sysinfo, linodeID, currentUUID, ovAtCall>>
    /\ UNCHANGED nvars
    /\ UNCHANGED pvars

\* The second read's error returned without the not-found test.
AnyErrorIsFatal(err) == err # "nil"

\* The error of the second read is returned unless it is not-found.
SystemInformationErrorIsFatal(err) == err # "nil" /\ ~IsNotFoundError(err)

\* shouldOverride and currentUUID from what the second read returned.
ShouldOverride(systemInfo) ==
    IF systemInfo.present THEN isInvalidUUID(systemInfo.value) ELSE TRUE

CurrentUUID(systemInfo) ==
    IF systemInfo.present THEN systemInfo.value ELSE NotAvailableYet

\* The guard of the create without the linodeID test.
NeedsCreateAnyID(shouldOverride, id) == shouldOverride

\* The guard of the create.
NeedsCreate(shouldOverride, id) == shouldOverride /\ IsPositive(id)

\* safe.ReaderGetByID of SystemInformation and the decision.
GetSystemInformation(i) ==
    /\ pc[i] = "getSystemInformation"
    /\ \E out \in GetOutcomes(sysinfo) :
        /\ Admitted(out.err, faults)
        /\ faults' = Counted(out.err, faults)
        /\ log' = [log EXCEPT ![i] = Append(@, [op |-> "GetSystemInformation", err |-> out.err])]
        /\ IF SystemInformationErrorIsFatal(out.err)
             THEN /\ pc' = [pc EXCEPT ![i] = "done"]
                  /\ ret' = [ret EXCEPT ![i] =
                        Errorf("failed to get system information", EmptyString, out.err)]
                  /\ UNCHANGED currentUUID
             ELSE /\ currentUUID' = [currentUUID EXCEPT ![i] = CurrentUUID(out.res)]
                  /\ IF NeedsCreate(ShouldOverride(out.res), linodeID[i])
                       THEN /\ pc' = [pc EXCEPT ![i] = "create"]
                            /\ UNCHANGED ret
                       ELSE /\ pc' = [pc EXCEPT ![i] = "done"]
                            /\ ret' = [ret EXCEPT ![i] = NilError]
    /\ UNCHANGED <<override, sysinfo, linodeID, ovAtCall>>
    /\ UNCHANGED nvars
    /\ UNCHANGED pvars

\* The error of r.Create returned without the conflict test.
CreateResultConflictFatal(err, uuid) ==
    IF err # "nil"
      THEN Errorf("failed to create UUID override for invalid SMBIOS UUID", uuid, err)
      ELSE NilError

\* The error of r.Create dropped.
CreateResultSwallowAll(err, uuid) == NilError

\* What ensureValidUUID returns for the error of r.Create.
CreateResult(err, uuid) ==
    IF err # "nil" /\ ~IsConflictError(err)
      THEN Errorf("failed to create UUID override for invalid SMBIOS UUID", uuid, err)
      ELSE NilError

\* The override written whether or not the record exists (an update in place
\* of the create).
CreateOverrideUpsert(i) ==
    /\ pc[i] = "create"
    /\ \E out \in CreateOutcomes(NoRecord, generateLinodeUUID(linodeID[i])) :
        /\ Admitted(out.err, faults)
        /\ faults' = Counted(out.err, faults)
        /\ override' = IF out.err = "nil" THEN out.after ELSE override
        /\ log' = [log EXCEPT ![i] = Append(@, [op |-> "Create", err |-> out.err])]
        /\ ret' = [ret EXCEPT ![i] = CreateResult(out.err, currentUUID[i])]
    /\ pc' = [pc EXCEPT ![i] = "done"]
    /\ UNCHANGED <<sysinfo, linodeID, currentUUID, ovAtCall>>
    /\ UNCHANGED nvars
    /\ UNCHANGED pvars

\* r.Create of the generated override and the handling of its error.
CreateOverride(i) ==
    /\ pc[i] = "create"
    /\ \E out \in CreateOutcomes(override, generateLinodeUUID(linodeID[i])) :
        /\ Admitted(out.err, faults)
        /\ faults' = Counted(out.err, faults)
        /\ override' = out.after
        /\ log' = [log EXCEPT ![i] = Append(@, [op |-> "Create", err |-> out.err])]
        /\ ret' = [ret EXCEPT ![i] = CreateResult(out.err, currentUUID[i])]
    /\ pc' = [pc EXCEPT ![i] = "done"]
    /\ UNCHANGED <<sysinfo, linodeID, currentUUID, ovAtCall>>
    /\ UNCHANGED nvars
    /\ UNCHANGED pvars

\* One invocation's steps after its entry.
Step(i) ==
    \/ GetOverride(i)
    \/ GetSystemInformation(i)
    \/ CreateOverride(i)

\* Invocations interleave freely at their store operations.
Next ==
    \E i \in Calls :
        \/ \E id \in LinodeIDs : Call(i, id)
        \/ Step(i)

Spec == Init /\ [][Next]_vars

\* Invocations run one after the other, in the order of their numbers.
CallSeq(i, id) ==
    /\ \A j \in Calls : j < i => pc[j] = "done"
    /\ Call(i, id)

NextSeq ==
    \E i \in Calls :
        \/ \E id \in LinodeIDs : CallSeq(i, id)
        \/ Step(i)

SpecSeq == Init /\ [][NextSeq]_vars

(***************************************************************************)
(* NetworkConfiguration                                                    *)
(***************************************************************************)
\* An error of a call outside the store: netutils.Wait, the metadata client.
ExternalErrors == {"unavailable"}

ExternalOutcomes == {"nil"} \cup ExternalErrors

NilReturn == [msg |-> "", cause |-> "nil"]

\* fmt.Errorf(msg + ": %w", cause); the empty msg is the error as it is.
Wrap(msg, cause) == [msg |-> msg, cause |-> cause]

Ran(i, step, err) == nlog' = [nlog EXCEPT ![i] = Append(@, [step |-> step, err |-> err])]

\* A return ends the lifetime of the invocation's locals.
Return(i, err) ==
    /\ npc' = [npc EXCEPT ![i] = "returned"]
    /\ nret' = [nret EXCEPT ![i] = err]
    /\ metadata' = [metadata EXCEPT ![i] = NoInstanceData]
    /\ network' = [network EXCEPT ![i] = NoNetworkData]
    /\ networkConfig' = [networkConfig EXCEPT ![i] = NilConfig]

Goto(i, label) ==
    /\ npc' = [npc EXCEPT ![i] = label]
    /\ UNCHANGED nret

Keep(locals) == UNCHANGED locals

\* Entry: NetworkConfiguration(ctx, r, ch); one invocation at a time.
NetworkConfigurationCall(i) ==
    /\ npc[i] = "idle"
    /\ pc[i] = "idle"
    /\ \A j \in Calls : j < i => npc[j] = "returned"
    /\ Goto(i, "wait")
    /\ UNCHANGED <<metadata, network, networkConfig, nlog, ctxDone, ch, received>>
    /\ UNCHANGED evars
    /\ UNCHANGED pvars

\* netutils.Wait(ctx, r): its error is returned as it is.
WaitForNetwork(i) ==
    /\ npc[i] = "wait"
    /\ \E e \in ExternalOutcomes :
        /\ Ran(i, "Wait", e)
        /\ IF e # "nil"
             THEN Return(i, Wrap("", e))
             ELSE Goto(i, "newClient") /\ Keep(<<metadata, network, networkConfig>>)
    /\ UNCHANGED <<ctxDone, ch, received>>
    /\ UNCHANGED evars
    /\ UNCHANGED pvars

\* akametadata.NewClient(ctx)
NewClient(i) ==
    /\ npc[i] = "newClient"
    /\ \E e \in ExternalOutcomes :
        /\ Ran(i, "NewClient", e)
        /\ IF e # "nil"
             THEN Return(i, Wrap("new metadata client", e))
             ELSE Goto(i, "getInstance") /\ Keep(<<metadata, network, networkConfig>>)
    /\ UNCHANGED <<ctxDone, ch, received>>
    /\ UNCHANGED evars
    /\ UNCHANGED pvars

\* metadataClient.GetInstance(ctx)
GetInstance(i) ==
    /\ npc[i] = "getInstance"
    /\ \/ \E e \in ExternalErrors :
            /\ Ran(i, "GetInstance", e)
            /\ Return(i, Wrap("get instance data", e))
       \/ \E md \in InstanceData :
            /\ Ran(i, "GetInstance", "nil")
            /\ metadata' = [metadata EXCEPT ![i] = md]
            /\ Goto(i, "callEnsureValidUUID")
            /\ Keep(<<network, networkConfig>>)
    /\ UNCHANGED <<ctxDone, ch, received>>
    /\ UNCHANGED evars
    /\ UNCHANGED pvars

\* a.ensureValidUUID(ctx, r, metadata.ID): the call
CallEnsureValidUUID(i) ==
    /\ npc[i] = "callEnsureValidUUID"
    /\ Enter(i, metadata[i].ID)
    /\ Goto(i, "ensureValidUUID")
    /\ UNCHANGED <<metadata, network, networkConfig, nlog, ctxDone, ch, received>>

\* The error of ensureValidUUID ignored.
EnsureValidUUIDReturnedErrorIgnored(i) ==
    /\ npc[i] = "ensureValidUUID"
    /\ pc[i] = "done"
    /\ Ran(i, "ensureValidUUID", ret[i].cause)
    /\ Goto(i, "getNetwork") /\ Keep(<<metadata, network, networkConfig>>)
    /\ UNCHANGED <<ctxDone, ch, received>>
    /\ UNCHANGED evars
    /\ UNCHANGED pvars

\* a.ensureValidUUID(ctx, r, metadata.ID): the handling of what it returned
EnsureValidUUIDReturned(i) ==
    /\ npc[i] = "ensureValidUUID"
    /\ pc[i] = "done"
    /\ Ran(i, "ensureValidUUID", ret[i].cause)
    /\ IF ret[i] # NilError
         THEN Return(i, Wrap("failed to ensure valid UUID", ret[i].cause))
         ELSE Goto(i, "getNetwork") /\ Keep(<<metadata, network, networkConfig>>)
    /\ UNCHANGED <<ctxDone, ch, received>>
    /\ UNCHANGED evars
    /\ UNCHANGED pvars

\* metadataClient.GetNetwork(ctx)
GetNetwork(i) ==
    /\ npc[i] = "getNetwork"
    /\ \/ \E e \in ExternalErrors :
            /\ Ran(i, "GetNetwork", e)
            /\ Return(i, Wrap("get network data", e))
       \/ \E nd \in NetworkData :
            /\ Ran(i, "GetNetwork", "nil")
            /\ network' = [network EXCEPT ![i] = nd]
            /\ Goto(i, "parseMetadata")
            /\ Keep(<<metadata, networkConfig>>)
    /\ UNCHANGED <<ctxDone, ch, received>>
    /\ UNCHANGED evars
    /\ UNCHANGED pvars

\* a.ParseMetadata(metadata, metadataNetworkConfig)
CallParseMetadata(i) ==
    /\ npc[i] = "parseMetadata"
    /\ LET parsed == ParseMetadata(metadata[i], network[i])
       IN  /\ Ran(i, "ParseMetadata", parsed.err)
           /\ IF parsed.err # "nil"
                THEN Return(i, Wrap("parse metadata", parsed.err))
                ELSE /\ networkConfig' = [networkConfig EXCEPT ![i] = parsed.cfg]
                     /\ Goto(i, "select")
                     /\ Keep(<<metadata, network>>)
    /\ UNCHANGED <<ctxDone, ch, received>>
    /\ UNCHANGED evars
    /\ UNCHANGED pvars

\* select, case ch <- networkConfig: the send completes and the call returns nil.
SelectSend(i) ==
    /\ npc[i] = "select"
    /\ Len(ch) < ChanCap
    /\ ch' = Append(ch, [from |-> i, cfg |-> networkConfig[i]])
    /\ Ran(i, "Send", "nil")
    /\ Return(i, NilReturn)
    /\ UNCHANGED <<ctxDone, received>>
    /\ UNCHANGED evars
    /\ UNCHANGED pvars

\* The case <-ctx.Done() taken only when the send could proceed as well.
SelectDoneWhenRoom(i) ==
    /\ npc[i] = "select"
    /\ ctxDone[i]
    /\ Len(ch) < ChanCap
    /\ Ran(i, "Done", "context canceled")
    /\ Return(i, Wrap("", "context canceled"))
    /\ UNCHANGED <<ctxDone, ch, received>>
    /\ UNCHANGED evars
    /\ UNCHANGED pvars

\* select, case <-ctx.Done(): the call returns ctx.Err().
SelectDone(i) ==
    /\ npc[i] = "select"
    /\ ctxDone[i]
    /\ Ran(i, "Done", "context canceled")
    /\ Return(i, Wrap("", "context canceled"))
    /\ UNCHANGED <<ctxDone, ch, received>>
    /\ UNCHANGED evars
    /\ UNCHANGED pvars

\* The caller cancels the context.  Only the select reads ctx.Done() (the
\* earlier steps' reaction to a cancelled context is among their errors), so
\* a cancellation before the select is the same as one on reaching it.
Cancel(i) ==
    /\ npc[i] = "select"
    /\ ~ctxDone[i]
    /\ ctxDone' = [ctxDone EXCEPT ![i] = TRUE]
    /\ UNCHANGED <<npc, metadata, network, networkConfig, nret, nlog, ch, received>>
    /\ UNCHANGED evars
    /\ UNCHANGED pvars

\* The consumer receives from the channel.
Receive ==
    /\ ch # << >>
    /\ received' = Append(received, Head(ch).from)
    /\ ch' = Tail(ch)
    /\ UNCHANGED <<npc, metadata, network, networkConfig, nret, nlog, ctxDone>>
    /\ UNCHANGED evars
    /\ UNCHANGED pvars

NextNC ==
    \/ \E i \in Calls :
        \/ NetworkConfigurationCall(i)
        \/ WaitForNetwork(i)
        \/ NewClient(i)
        \/ GetInstance(i)
        \/ CallEnsureValidUUID(i)
        \/ Step(i)
        \/ EnsureValidUUIDReturned(i)
        \/ GetNetwork(i)
        \/ CallParseMetadata(i)
        \/ SelectSend(i)
        \/ SelectDone(i)
        \/ Cancel(i)
    \/ Receive

SpecNC == Init /\ [][NextNC]_vars

(***************************************************************************)
(* generateLinodeUUID and isInvalidUUID applied to given ids, as           *)
(* TestGenerateLinodeUUID and TestIsInvalidUUID apply them.                *)
(***************************************************************************)
\* The ids -1..MaxSmallID are all tried, besides the ids of the tests and
\* the ids around 10^12.
MaxSmallID == 10

\* 999999999999 = 10^12 - 1
ID999999999999 == [neg |-> FALSE, mag |-> <<0, 232, 54437, 4095>>]

\* math.MaxInt64 = 2^63 - 1
MaxInt64 == [neg |-> FALSE, mag |-> <<32767, 65535, 65535, 65535>>]

GenIDs ==
    {Small(n) : n \in -1..MaxSmallID}
        \cup {Small(123), Small(12345), Small(79475478),
              ID999999999999, ID1000000000000, MaxInt64}

\* No invocation of ensureValidUUID or NetworkConfiguration has started and
\* the store is empty.
Quiescent ==
    /\ override = NoRecord
    /\ sysinfo = NoRecord
    /\ pc = [i \in Calls |-> "idle"]
    /\ linodeID = [i \in Calls |-> Small(0)]
    /\ currentUUID = [i \in Calls |-> EmptyString]
    /\ ret = [i \in Calls |-> NilError]
    /\ log = [i \in Calls |-> << >>]
    /\ ovAtCall = [i \in Calls |-> NoRecord]
    /\ faults = 0
    /\ npc = [i \in Calls |-> "idle"]
    /\ metadata = [i \in Calls |-> NoInstanceData]
    /\ network = [i \in Calls |-> NoNetworkData]
    /\ networkConfig = [i \in Calls |-> NilConfig]
    /\ nret = [i \in Calls |-> "nil"]
    /\ nlog = [i \in Calls |-> << >>]
    /\ ctxDone = [i \in Calls |-> FALSE]
    /\ ch = << >>
    /\ received = << >>

InitGen ==
    /\ Quiescent
    /\ genArgs \in GenIDs \X GenIDs
    /\ genResults = NotCalled
    /\ parseArgs = [metadata |-> NoInstanceData, interfaceAddresses |-> NoNetworkData]
    /\ parseResult = NotCalled

\* result := generateLinodeUUID(linodeID), for each of the two ids.
Generate ==
    /\ genResults = NotCalled
    /\ genResults' = [called  |-> TRUE,
                      uuid    |-> <<generateLinodeUUID(genArgs[1]),
                                    generateLinodeUUID(genArgs[2])>>,
                      checked |-> FALSE]
    /\ UNCHANGED <<evars, nvars, genArgs, parseArgs, parseResult>>

\* isInvalidUUID(result), for each of the two results.
CheckInvalid ==
    /\ genResults.called
    /\ ~genResults.checked
    /\ genResults' = [called  |-> TRUE,
                      uuid    |-> genResults.uuid,
                      checked |-> TRUE,
                      invalid |-> <<isInvalidUUID(genResults.uuid[1]),
                                    isInvalidUUID(genResults.uuid[2])>>]
    /\ UNCHANGED <<evars, nvars, genArgs, parseArgs, parseResult>>

NextGen == Generate \/ CheckInvalid

SpecGen == InitGen /\ [][NextGen]_vars

(***************************************************************************)
(* ParseMetadata applied to given metadata, on its own.                    *)
(***************************************************************************)
\* The lists of public and of range prefixes have at most MaxAddrs entries,
\* the list of private prefixes at most one.
MaxAddrs == 2

SeqsUpTo(S, n) == UNION {[1..k -> S] : k \in 0..n}

\* The network data the metadata service may answer with; an entry of a
\* list that was empty in the answer is the zero Prefix.
ParseNetworkData ==
    {[IPv4 |-> [Public |-> public, Private |-> private],
      IPv6 |-> [Ranges |-> ranges, LinkLocal |-> linkLocal]] :
        public \in SeqsUpTo({Public1, Public2, ZeroPrefix}, MaxAddrs),
        private \in SeqsUpTo({Private1}, 1),
        ranges \in SeqsUpTo({Range1, Range2}, MaxAddrs),
        linkLocal \in {LinkLocal1, LinkLocal2, LinkLocal3, ZeroPrefix}}

InitParse ==
    /\ Quiescent
    /\ genArgs = <<Small(0), Small(0)>>
    /\ genResults = NotCalled
    /\ parseArgs \in [metadata : InstanceData, interfaceAddresses : ParseNetworkData]
    /\ parseResult = NotCalled

\* networkConfig, err := a.ParseMetadata(metadata, interfaceAddresses)
ApplyParseMetadata ==
    /\ parseResult = NotCalled
    /\ LET parsed == ParseMetadata(parseArgs.metadata, parseArgs.interfaceAddresses)
       IN  parseResult' = [called |-> TRUE, cfg |-> parsed.cfg, err |-> parsed.err]
    /\ UNCHANGED <<evars, nvars, genArgs, genResults, parseArgs>>

NextParse == ApplyParseMetadata

SpecParse == InitParse /\ [][NextParse]_vars


(***************************************************************************)
(* The handoff of NetworkConfiguration under the scheduling of Go: a       *)
(* goroutine blocked in a select runs once one of its cases can proceed.   *)
(* The consumer and the owner of the context are under no obligation.      *)
(***************************************************************************)
\* The store of a machine that reports the all-zero hardware UUID and has no
\* override yet.
InitHandoff ==
    /\ Init
    /\ override = NoRecord
    /\ sysinfo = Record(ZeroUUID)

SpecHandoff ==
    /\ InitHandoff
    /\ [][NextNC]_vars
    /\ \A i \in Calls : WF_vars(SelectSend(i) \/ SelectDone(i))


(***************************************************************************)
(* Vocabulary of the properties.                                           *)
(***************************************************************************)
Done(i) == pc[i] = "done"

Started == {i \in Calls : pc[i] # "idle"}

\* The store operations invocation i issued with the given name and error.
Issued(i, op, err) == \E k \in 1..Len(log[i]) : log[i][k] = [op |-> op, err |-> err]

IssuedCreate(i) == \E k \in 1..Len(log[i]) : log[i][k].op = "Create"

\* No store operation of invocation i failed with one of OtherErrors.
NoFailure(i) == \A k \in 1..Len(log[i]) : log[i][k].err \notin OtherErrors

\* The hardware UUID is absent, empty or the all-zero UUID.
HardwareUUIDInvalid == ~sysinfo.present \/ sysinfo.value \in {EmptyString, ZeroUUID}

\* This step is a step of invocation i inside ensureValidUUID.
StepOf(i) == pc'[i] # pc[i]

\* The magnitude 10 * mag + d (the carry out of the top limb is dropped).
MulAdd10(mag, d) ==
    LET acc[j \in 0..NumLimbs] ==
            IF j = 0 THEN [limbs |-> << >>, carry |-> d]
            ELSE LET cur == mag[NumLimbs - j + 1] * 10 + acc[j - 1].carry
                 IN  [limbs |-> <<cur % LimbBase>> \o acc[j - 1].limbs,
                      carry |-> cur \div LimbBase]
    IN  acc[NumLimbs].limbs

DigitValue(c) == CHOOSE d \in 0..9 : DigitChars[d + 1] = c

IsDigits(t) == \A k \in 1..Len(t) : \E d \in 0..9 : DigitChars[d + 1] = t[k]

\* The magnitude a text of decimal digits denotes.
RECURSIVE ParseUint(_)
ParseUint(t) ==
    IF t = << >> THEN ZeroMag
    ELSE MulAdd10(ParseUint(SubSeq(t, 1, Len(t) - 1)), DigitValue(t[Len(t)]))

\* v is the fixed prefix followed by id in decimal, padded with zeros to
\* twelve digits (and by no more zeros than that).
IsPrefixAndPaddedDecimal(v, id) ==
    /\ Len(v) >= Len(UUIDPrefix) + PadWidth
    /\ SubSeq(v, 1, Len(UUIDPrefix)) = UUIDPrefix
    /\ LET digits == SubSeq(v, Len(UUIDPrefix) + 1, Len(v))
       IN  /\ IsDigits(digits)
           /\ ParseUint(digits) = id.mag
           /\ Len(digits) > PadWidth => digits[1] # "0"

\* "00000000-0000-0000-0000-000000012345"
UUIDOf12345 == <<
      "0", "0", "0", "0", "0", "0", "0", "0", "-", "0", "0", "0",
      "0", "-", "0", "0", "0", "0", "-", "0", "0", "0", "0", "-",
      "0", "0", "0", "0", "0", "0", "0", "1", "2", "3", "4", "5">>

\* "00000000-0000-0000-0000-000079475478"
UUIDOf79475478 == <<
      "0", "0", "0", "0", "0", "0", "0", "0", "-", "0", "0", "0",
      "0", "-", "0", "0", "0", "0", "-", "0", "0", "0", "0", "-",
      "0", "0", "0", "0", "7", "9", "4", "7", "5", "4", "7", "8">>

\* 36 characters, dashes at offsets 8, 13, 18 and 23, digits elsewhere.
DashOffsets == {8, 13, 18, 23}

IsUUIDShaped(v) ==
    /\ Len(v) = Len(ZeroUUID)
    /\ \A k \in 1..Len(v) :
        IF (k - 1) \in DashOffsets THEN v[k] = "-"
        ELSE \E d \in 0..9 : DigitChars[d + 1] = v[k]

(***************************************************************************)
(* C1: once the override record holds a non-empty value, no step of any    *)
(* invocation, in any interleaving, changes the record.                    *)
(***************************************************************************)
C1_WriteOnce ==
    [][(override.present /\ override.value # EmptyString) => override' = override]_vars

\* An invocation with another positive linodeID raced past the first read,
\* found the hardware UUID invalid and issued its create against the override
\* another invocation had committed.
C1_Witness ==
    /\ override = Record(UUIDOf12345)
    /\ HardwareUUIDInvalid
    /\ \E i \in Calls :
        /\ Done(i)
        /\ linodeID[i] = Small(79475478)
        /\ Issued(i, "Create", "Conflict")

(***************************************************************************)
(* C2: when every started invocation has the same positive linodeID, the   *)
(* store started without an override, the hardware UUID is invalid or      *)
(* absent and no store operation failed, then once all of them have        *)
(* returned each returned nil, exactly one create succeeded, and the       *)
(* override is generateLinodeUUID of that linodeID.                         *)
(***************************************************************************)
C2_Converged(id) ==
    /\ \A i \in Started : ret[i] = NilError
    /\ Cardinality({i \in Started : Issued(i, "Create", "nil")}) = 1
    /\ override = Record(generateLinodeUUID(id))

C2_ConcurrentConvergence ==
    \A id \in LinodeIDs :
        ( /\ Started # {}
          /\ \A i \in Started : Done(i) /\ linodeID[i] = id
          /\ IsPositive(id)
          /\ \E i \in Started : ovAtCall[i] = NoRecord
          /\ HardwareUUIDInvalid
          /\ faults = 0 )
        => C2_Converged(id)

\* All invocations ran with the same id and one of them lost the race.
C2_Witness ==
    /\ Started = Calls
    /\ \A i \in Calls : Done(i) /\ linodeID[i] = Small(79475478) /\ ret[i] = NilError
    /\ faults = 0
    /\ \E i \in Calls : Issued(i, "Create", "Conflict")
    /\ \E i \in Calls : ovAtCall[i] = NoRecord
    /\ override = Record(UUIDOf79475478)

(***************************************************************************)
(* C3: a call made when no override record exists, with the hardware UUID  *)
(* absent, empty or all-zero, a positive linodeID and no failing store     *)
(* operation returns nil and leaves an override whose value is the prefix  *)
(* 00000000-0000-0000-0000- followed by the linodeID in decimal, padded    *)
(* with zeros to twelve digits.                                            *)
(***************************************************************************)
C3_Creation ==
    \A i \in Calls :
        ( /\ Done(i)
          /\ ovAtCall[i] = NoRecord
          /\ HardwareUUIDInvalid
          /\ IsPositive(linodeID[i])
          /\ NoFailure(i) )
        => /\ ret[i] = NilError
           /\ Issued(i, "Create", "nil")
           /\ override.present
           /\ IsPrefixAndPaddedDecimal(override.value, linodeID[i])

\* The tests' scenario: system information not available, linodeID 12345.
C3_Witness ==
    \E i \in Calls :
        /\ Done(i)
        /\ ovAtCall[i] = NoRecord
        /\ ~sysinfo.present
        /\ linodeID[i] = Small(12345)
        /\ ret[i] = NilError
        /\ override = Record(UUIDOf12345)

(***************************************************************************)
(* C4: an invocation whose linodeID is zero or negative never issues a     *)
(* create, and none of its steps changes the store, whatever the store     *)
(* holds.                                                                  *)
(***************************************************************************)
C4_NoCreateIssued ==
    \A i \in Started :
        ~IsPositive(linodeID[i]) => pc[i] # "create" /\ ~IssuedCreate(i)

C4_StoreUnchanged ==
    \A i \in Calls :
        (StepOf(i) /\ ~IsPositive(linodeID'[i])) => UNCHANGED <<override, sysinfo>>

C4_Guard == []C4_NoCreateIssued /\ [][C4_StoreUnchanged]_vars

\* The tests' scenario: all-zero hardware UUID, no override, linodeID 0.
C4_Witness ==
    \E i \in Calls :
        /\ Done(i)
        /\ linodeID[i] = Small(0)
        /\ sysinfo = Record(ZeroUUID)
        /\ override = NoRecord
        /\ Issued(i, "GetSystemInformation", "nil")
        /\ ret[i] = NilError

(***************************************************************************)
(* C5: an invocation that reads a system-information record whose UUID is  *)
(* neither empty nor all-zero returns nil without issuing a create, for    *)
(* every linodeID, and none of its steps changes the override.             *)
(***************************************************************************)
ReadValidUUID(i) ==
    /\ Issued(i, "GetSystemInformation", "nil")
    /\ sysinfo.present
    /\ sysinfo.value \notin {EmptyString, ZeroUUID}

C5_ReturnsNilWithoutCreate ==
    \A i \in Calls :
        ReadValidUUID(i) => Done(i) /\ ret[i] = NilError /\ ~IssuedCreate(i)

C5_OverrideUnchanged ==
    \A i \in Calls :
        (StepOf(i) /\ sysinfo.present /\ sysinfo.value \notin {EmptyString, ZeroUUID})
            => override' = override

C5_ValidUUIDFrame == []C5_ReturnsNilWithoutCreate /\ [][C5_OverrideUnchanged]_vars

\* The tests' scenario: valid hardware UUID, positive linodeID, no override
\* before the call and none after it.
C5_Witness ==
    \E i \in Calls :
        /\ Done(i)
        /\ sysinfo = Record(ValidUUID)
        /\ linodeID[i] = Small(79475478)
        /\ ReadValidUUID(i)
        /\ ovAtCall[i] = NoRecord
        /\ override = NoRecord

(***************************************************************************)
(* C6: when two calls with the same linodeID run one after the other and   *)
(* no store operation fails, the second returns nil and leaves the store   *)
(* as the first left it, for every initial store and every linodeID.       *)
(***************************************************************************)
C6_Idempotence ==
    \A i \in Calls :
        ( /\ i + 1 \in Calls
          /\ Done(i) /\ Done(i + 1)
          /\ linodeID[i + 1] = linodeID[i]
          /\ NoFailure(i) /\ NoFailure(i + 1)
          /\ \A j \in Calls : j > i + 1 => pc[j] = "idle" )
        => /\ ret[i + 1] = NilError
           /\ override = ovAtCall[i + 1]
           /\ ~Issued(i + 1, "Create", "nil")

\* The first call created the override; the second returned after its one
\* read.
C6_Witness ==
    /\ 2 \in Calls
    /\ Done(1) /\ Done(2)
    /\ linodeID[1] = Small(79475478) /\ linodeID[2] = Small(79475478)
    /\ Issued(1, "Create", "nil")
    /\ log[2] = <<[op |-> "GetOverride", err |-> "nil"]>>
    /\ override = Record(UUIDOf79475478)

(***************************************************************************)
(* C7: for each of the two reads, not-found is absence (the call goes on), *)
(* and any other failure of the read ends the call with an error before    *)
(* any further store operation.                                            *)
(***************************************************************************)
IsRead(op) == op \in {"GetOverride", "GetSystemInformation"}

C7_ReadErrorsAreFatal ==
    \A i \in Calls : \A k \in 1..Len(log[i]) :
        (IsRead(log[i][k].op) /\ log[i][k].err \in OtherErrors)
            => /\ pc[i] # "create"
               /\ \A m \in 1..Len(log[i]) : m > k => log[i][m].op # "Create"
               /\ Done(i) => ret[i] # NilError

(***************************************************************************)
(* C8: when the create ends in a conflict the call returns nil and the     *)
(* record is as it was; when it ends in any other error the call returns   *)
(* that error, wrapped with the UUID it observed, and the record is as it  *)
(* was.                                                                    *)
(***************************************************************************)
C8_CreateStep(i) ==
    LET err == log'[i][Len(log'[i])].err
    IN  /\ err = "Conflict" =>
            /\ ret'[i] = NilError
            /\ override.present
            /\ override' = override
        /\ err \in OtherErrors =>
            /\ ret'[i] # NilError
            /\ ret'[i].cause = err
            /\ ret'[i].uuid = currentUUID[i]
            /\ override' = override
        /\ err = "nil" => ret'[i] = NilError

C8_CreateOutcomes ==
    [][\A i \in Calls : (pc[i] = "create" /\ pc'[i] = "done") => C8_CreateStep(i)]_vars

\* One create ended in a conflict and another in a deadline error.
C8_Witness ==
    /\ \E i \in Calls :
        /\ Done(i) /\ Issued(i, "Create", "Conflict") /\ ret[i] = NilError
    /\ \E i \in Calls :
        /\ Done(i) /\ Issued(i, "Create", "DeadlineExceeded")
        /\ ret[i].cause = "DeadlineExceeded"

(***************************************************************************)
(* C9: an invocation of NetworkConfiguration runs wait-for-network,        *)
(* NewClient, GetInstance, ensureValidUUID, GetNetwork and ParseMetadata   *)
(* in that order and stops at the first that fails, sending nothing; it    *)
(* sends at most one configuration, and only after all of them succeeded;  *)
(* it returns nil exactly when it sent, and ctx.Err() when the select      *)
(* took the cancellation.                                                  *)
(***************************************************************************)
StepOrder ==
    <<"Wait", "NewClient", "GetInstance", "ensureValidUUID", "GetNetwork",
      "ParseMetadata">>

\* The number of configurations of invocation i in the channel or received.
Sends(i) ==
    Len(SelectSeq(ch, LAMBDA m : m.from = i)) + Len(SelectSeq(received, LAMBDA f : f = i))

C9_Ordered(i) ==
    /\ Len(nlog[i]) <= Len(StepOrder) + 1
    /\ \A k \in 1..Len(nlog[i]) :
        /\ k <= Len(StepOrder) => nlog[i][k].step = StepOrder[k]
        /\ k > Len(StepOrder) => nlog[i][k].step \in {"Send", "Done"}
        \* a step runs only when every step before it succeeded
        /\ \A m \in 1..(k - 1) : nlog[i][m].err = "nil"

C9_Returns(i) ==
    LET last == nlog[i][Len(nlog[i])]
    IN  npc[i] = "returned" =>
            /\ nlog[i] # << >>
            /\ (nret[i] = NilReturn) <=> (Sends(i) = 1)
            /\ (nret[i] = NilReturn) <=> (last.step = "Send")
            /\ last.step = "Done" =>
                /\ ctxDone[i]
                /\ nret[i] = Wrap("", "context canceled")
            /\ last.err # "nil" => nret[i].cause = last.err

C9_HandoffOrdering ==
    \A i \in Calls :
        /\ Sends(i) <= 1
        /\ Sends(i) = 1 =>
            /\ Len(nlog[i]) = Len(StepOrder) + 1
            /\ nlog[i][Len(nlog[i])].step = "Send"
        /\ C9_Ordered(i)
        /\ C9_Returns(i)

\* One invocation sent its configuration; the next found the channel full,
\* its context was cancelled and it returned ctx.Err() without sending.
C9_Witness ==
    \E i, j \in Calls :
        /\ npc[i] = "returned" /\ nret[i] = NilReturn /\ Sends(i) = 1
        /\ npc[j] = "returned" /\ nret[j] = Wrap("", "context canceled")
        /\ Len(nlog[j]) = Len(StepOrder) + 1 /\ Sends(j) = 0

(***************************************************************************)
(* C10: every override value a create of ensureValidUUID wrote is 36       *)
(* characters long, with dashes at offsets 8, 13, 18 and 23 and digits     *)
(* elsewhere.                                                              *)
(***************************************************************************)
C10_CreatedIsUUIDShaped ==
    (\E i \in Calls : Issued(i, "Create", "nil")) => IsUUIDShaped(override.value)

(***************************************************************************)
(* C11: for every id with 0 <= id < 10^12, generateLinodeUUID(id) is 36    *)
(* characters long, has dashes at offsets 8, 13, 18 and 23, starts with    *)
(* 00000000-0000-0000-0000-, and its last twelve characters are the id in  *)
(* decimal, padded on the left with zeros; two different ids of that range *)
(* give two different results.                                             *)
(***************************************************************************)
\* a < b, for magnitudes.
MagLess(a, b) ==
    \E k \in 1..NumLimbs : a[k] < b[k] /\ \A j \in 1..(k - 1) : a[j] = b[j]

\* 0 <= id < 10^12
InTwelveDigits(id) == ~id.neg /\ MagLess(id.mag, ID1000000000000.mag)

\* "00000000-0000-0000-0000-000000000123"
UUIDOf123 == UUIDPrefix \o <<"0", "0", "0", "0", "0", "0", "0", "0", "0", "1", "2", "3">>

\* "00000000-0000-0000-0000-999999999999"
UUIDOf999999999999 ==
    UUIDPrefix \o <<"9", "9", "9", "9", "9", "9", "9", "9", "9", "9", "9", "9">>

C11_Shape(id, v) ==
    /\ Len(v) = 36
    /\ \A o \in DashOffsets : v[o + 1] = "-"
    /\ SubSeq(v, 1, 24) = UUIDPrefix
    /\ IsDigits(SubSeq(v, 25, 36))
    /\ ParseUint(SubSeq(v, 25, 36)) = id.mag
    /\ id = Small(123) => v = UUIDOf123
    /\ id = ID999999999999 => v = UUIDOf999999999999

C11_GeneratedShape ==
    genResults.called =>
        /\ \A k \in 1..2 :
            InTwelveDigits(genArgs[k]) => C11_Shape(genArgs[k], genResults.uuid[k])
        /\ (InTwelveDigits(genArgs[1]) /\ InTwelveDigits(genArgs[2])
                /\ genArgs[1] # genArgs[2])
            => genResults.uuid[1] # genResults.uuid[2]

\* Both results are there for the largest id of the range and for one of
\* another length.
C11_Witness ==
    /\ genResults.called
    /\ genArgs = <<ID999999999999, Small(123)>>
    /\ genResults.uuid = <<UUIDOf999999999999, UUIDOf123>>

(***************************************************************************)
(* C12: a successful ParseMetadata emits one address entry for each public *)
(* IPv4 prefix, then one for each private IPv4 prefix, then one for each   *)
(* IPv6 range, then one for the link-local prefix, and no other; all are   *)
(* on eth0 and the platform layer; the IPv4 entries have global scope, the *)
(* permanent flag and the IPv4 family; the range entries have global       *)
(* scope, the temporary-management flag and the IPv6 family; the           *)
(* link-local entry is the only one with link scope and has no flags, and  *)
(* is there also when there is no range.                                   *)
(***************************************************************************)
Succeeded == parseResult.called /\ parseResult.err = "nil"

C12_Entry(e, iface, scope, flags, family) ==
    /\ e.ConfigLayer = "ConfigPlatform"
    /\ e.LinkName = "eth0"
    /\ e.Address = iface
    /\ e.Scope = scope
    /\ e.Flags = flags
    /\ e.Family = family

C12_AddressDerivation ==
    Succeeded =>
        LET public  == parseArgs.interfaceAddresses.IPv4.Public
            private == parseArgs.interfaceAddresses.IPv4.Private
            ranges  == parseArgs.interfaceAddresses.IPv6.Ranges
            a       == parseResult.cfg.Addresses
        IN  /\ Len(a) = Len(public) + Len(private) + Len(ranges) + 1
            /\ \A k \in 1..Len(public) :
                C12_Entry(a[k], public[k], "ScopeGlobal", {"AddressPermanent"},
                          "FamilyInet4")
            /\ \A k \in 1..Len(private) :
                C12_Entry(a[Len(public) + k], private[k], "ScopeGlobal",
                          {"AddressPermanent"}, "FamilyInet4")
            /\ \A k \in 1..Len(ranges) :
                C12_Entry(a[Len(public) + Len(private) + k], ranges[k], "ScopeGlobal",
                          {"AddressManagementTemp"}, "FamilyInet6")
            /\ C12_Entry(a[Len(a)], parseArgs.interfaceAddresses.IPv6.LinkLocal,
                         "ScopeLink", {}, "FamilyInet6")
            /\ Cardinality({k \in 1..Len(a) : a[k].Scope = "ScopeLink"}) = 1

\* A translation of two public prefixes, a private one and no range: four
\* entries, the last of them the link-local one.
C12_Witness ==
    /\ Succeeded
    /\ parseArgs.interfaceAddresses.IPv4.Public = <<Public1, Public2>>
    /\ parseArgs.interfaceAddresses.IPv4.Private = <<Private1>>
    /\ parseArgs.interfaceAddresses.IPv6.Ranges = << >>
    /\ Len(parseResult.cfg.Addresses) = 4
    /\ parseResult.cfg.Addresses[4].Scope = "ScopeLink"

(***************************************************************************)
(* C13 as stated: the external IPs of a successful ParseMetadata are the   *)
(* addresses of all the public IPv4 entries, in input order, followed by   *)
(* the addresses of all the IPv6 ranges, in input order.                   *)
(***************************************************************************)
AddrsOf(prefixes) == [k \in 1..Len(prefixes) |-> prefixes[k].ip]

C13_AllPublicAndRanges ==
    Succeeded =>
        parseResult.cfg.ExternalIPs
            = AddrsOf(parseArgs.interfaceAddresses.IPv4.Public)
                \o AddrsOf(parseArgs.interfaceAddresses.IPv6.Ranges)

(***************************************************************************)
(* C13, amended: the external IPs of a successful ParseMetadata are the    *)
(* addresses of the public IPv4 entries that have an address, in input     *)
(* order, followed by the addresses of the IPv6 ranges that have one, in   *)
(* input order; an entry that is the zero prefix is skipped; the private   *)
(* and the link-local inputs contribute nothing.                           *)
(***************************************************************************)
HasAddr(prefix) == prefix.ip # ZeroAddr

C13_ExternalIPs ==
    Succeeded =>
        LET public == parseArgs.interfaceAddresses.IPv4.Public
            ranges == parseArgs.interfaceAddresses.IPv6.Ranges
            ips    == parseResult.cfg.ExternalIPs
        IN  /\ ips = AddrsOf(SelectSeq(public, HasAddr)) \o AddrsOf(SelectSeq(ranges, HasAddr))
            /\ \A k \in 1..Len(ips) :
                \/ \E m \in 1..Len(public) : ips[k] = public[m].ip
                \/ \E m \in 1..Len(ranges) : ips[k] = ranges[m].ip

\* A translation of a zero prefix and a public prefix, a private prefix and
\* two ranges: three external IPs.
C13_Witness ==
    /\ Succeeded
    /\ parseArgs.interfaceAddresses.IPv4.Public = <<ZeroPrefix, Public1>>
    /\ parseArgs.interfaceAddresses.IPv4.Private = <<Private1>>
    /\ parseArgs.interfaceAddresses.IPv6.Ranges = <<Range2, Range1>>
    /\ parseResult.cfg.ExternalIPs = <<Public1.ip, Range2.ip, Range1.ip>>

(***************************************************************************)
(* C14: a successful ParseMetadata emits one route; its gateway is the     *)
(* address written as the text of the link-local prefix up to its first    *)
(* colon, followed by ::1 (fe80::1 for fe80::abcd:1/64 and for             *)
(* fe80::1/64); its destination is the link-local prefix; it is in the     *)
(* main table, static, unicast, IPv6, of priority 1024; it is the route    *)
(* of the same link-local prefix without any public, private or range      *)
(* prefix; and ParseMetadata fails when that text is not an address.       *)
(***************************************************************************)
\* "fe80::1/64"
LinkLocalOne == <<"f", "e", "8", "0", ":", ":", "1", "/", "6", "4">>

\* "fe80::1"
GatewayFE80 == <<"f", "e", "8", "0", ":", ":", "1">>

\* The text up to the first colon, followed by "::1".
C14_GatewayText(text) ==
    LET k == CHOOSE k \in 1..(Len(text) + 1) :
                /\ \A m \in 1..(k - 1) : text[m] # ":"
                /\ k = Len(text) + 1 \/ text[k] = ":"
    IN  SubSeq(text, 1, k - 1) \o <<":", ":", "1">>

\* The same arguments with no public, private or range prefix.
C14_LinkLocalOnly ==
    [IPv4 |-> [Public |-> << >>, Private |-> << >>],
     IPv6 |-> [Ranges |-> << >>,
               LinkLocal |-> parseArgs.interfaceAddresses.IPv6.LinkLocal]]

C14_DefaultRoute ==
    LET linkLocal == parseArgs.interfaceAddresses.IPv6.LinkLocal
        text      == PrefixString(linkLocal)
    IN  /\ Succeeded =>
            /\ Len(parseResult.cfg.Routes) = 1
            /\ LET route == parseResult.cfg.Routes[1]
               IN  /\ ParseAddr(C14_GatewayText(text)) = [ok |-> TRUE, ip |-> route.Gateway]
                   /\ AddrString(route.Gateway) = C14_GatewayText(text)
                   /\ text \in {LinkLocalABCD, LinkLocalOne}
                        => AddrString(route.Gateway) = GatewayFE80
                   /\ route.Destination = linkLocal
                   /\ route.OutLinkName = "eth0"
                   /\ route.Table = "TableMain"
                   /\ route.Protocol = "ProtocolStatic"
                   /\ route.Type = "TypeUnicast"
                   /\ route.Family = "FamilyInet6"
                   /\ route.Priority = 1024
            /\ parseResult.cfg.Routes
                = ParseMetadata(parseArgs.metadata, C14_LinkLocalOnly).cfg.Routes
        /\ (parseResult.called /\ ~ParseAddr(C14_GatewayText(text)).ok) =>
            /\ parseResult.err # "nil"
            /\ parseResult.cfg = NilConfig
        /\ (parseResult.called /\ linkLocal \in {ZeroPrefix, LinkLocal3}) =>
            parseResult.err # "nil"

\* A translation of fe80::abcd:1/64 with public and range prefixes: the
\* gateway is fe80::1.
C14_Witness ==
    /\ Succeeded
    /\ PrefixString(parseArgs.interfaceAddresses.IPv6.LinkLocal) = LinkLocalABCD
    /\ parseArgs.interfaceAddresses.IPv4.Public # << >>
    /\ parseArgs.interfaceAddresses.IPv6.Ranges # << >>
    /\ AddrString(parseResult.cfg.Routes[1].Gateway) = GatewayFE80

(***************************************************************************)
(* C15: ParseMetadata gives NetworkConfiguration either an error and no    *)
(* configuration or a complete configuration and no error: an invocation   *)
(* holds a configuration only at the select, and then a complete one; a    *)
(* malformed label or a link-local prefix whose gateway text does not      *)
(* parse makes the ParseMetadata step fail, and the invocation then        *)
(* returns that error and sends nothing.                                   *)
(***************************************************************************)
C15_Complete(cfg, md, nd) ==
    /\ cfg # NilConfig
    /\ ~cfg.nil
    /\ Len(cfg.Hostnames) = (IF md.Label = "" THEN 0 ELSE 1)
    /\ Len(cfg.Addresses)
        = Len(nd.IPv4.Public) + Len(nd.IPv4.Private) + Len(nd.IPv6.Ranges) + 1
    /\ Len(cfg.Routes) = 1
    /\ cfg.Routes[1].Gateway.is = "6"
    /\ Len(cfg.ExternalIPs) <= Len(nd.IPv4.Public) + Len(nd.IPv6.Ranges)
    /\ cfg.Metadata.Platform = "akamai"
    /\ cfg.Metadata.Hostname = md.Label

C15_Malformed(md, nd) ==
    md.Label \in MalformedLabels \/ nd.IPv6.LinkLocal \in {ZeroPrefix, LinkLocal3}

C15_FailedParse(i) ==
    \E k \in 1..Len(nlog[i]) :
        nlog[i][k].step = "ParseMetadata" /\ nlog[i][k].err # "nil"

C15_State ==
    /\ \A i \in Calls :
        /\ npc[i] = "select" =>
            /\ C15_Complete(networkConfig[i], metadata[i], network[i])
            /\ ~C15_Malformed(metadata[i], network[i])
        /\ npc[i] # "select" => networkConfig[i] = NilConfig
        /\ C15_FailedParse(i) =>
            /\ npc[i] = "returned"
            /\ nret[i] # NilReturn
            /\ nret[i].cause = nlog[i][Len(nlog[i])].err
            /\ Sends(i) = 0
    /\ \A m \in 1..Len(ch) : ~ch[m].cfg.nil /\ Len(ch[m].cfg.Routes) = 1

C15_ParseStep ==
    \A i \in Calls :
        (/\ npc[i] = "parseMetadata"
         /\ npc'[i] # npc[i]
         /\ C15_Malformed(metadata[i], network[i]))
            => /\ npc'[i] = "returned"
               /\ nret'[i] # NilReturn
               /\ networkConfig'[i] = NilConfig
               /\ ch' = ch

C15_AllOrNothing == []C15_State /\ [][C15_ParseStep]_vars

\* One invocation failed on a malformed label and another on a link-local
\* prefix without an address; nothing was sent.
C15_Witness ==
    /\ \E i \in Calls :
        /\ npc[i] = "returned"
        /\ nlog[i][Len(nlog[i])] = [step |-> "ParseMetadata", err |-> "invalid hostname"]
    /\ \E i \in Calls :
        /\ npc[i] = "returned"
        /\ nlog[i][Len(nlog[i])] = [step |-> "ParseMetadata", err |-> "unable to parse IP"]
    /\ ch = << >>
    /\ received = << >>

(***************************************************************************)
(* C16: the store operations of an invocation of ensureValidUUID are, in   *)
(* this order, the read of the override, the read of the system            *)
(* information and at most one create; the only change a step makes to the *)
(* store is the creation of the override record by a create that           *)
(* succeeded; and an invocation whose read of the override finds a         *)
(* non-empty value returns nil with that read as its only operation.       *)
(***************************************************************************)
C16_Order == <<"GetOverride", "GetSystemInformation", "Create">>

C16_Operations ==
    \A i \in Calls :
        /\ Len(log[i]) <= Len(C16_Order)
        /\ \A k \in 1..Len(log[i]) : log[i][k].op = C16_Order[k]

C16_Step ==
    /\ sysinfo' = sysinfo
    /\ override' # override =>
        /\ ~override.present
        /\ override'.present
        /\ \E i \in Calls :
            log'[i] = Append(log[i], [op |-> "Create", err |-> "nil"])
    /\ \A i \in Calls :
        /\ (/\ pc[i] = "getOverride"
            /\ pc'[i] # pc[i]
            /\ override.present
            /\ override.value # EmptyString
            /\ log'[i][Len(log'[i])].err = "nil")
            => /\ pc'[i] = "done"
               /\ ret'[i] = NilError
               /\ log'[i] = <<[op |-> "GetOverride", err |-> "nil"]>>
        /\ pc[i] = "done" => pc'[i] = "done" /\ log'[i] = log[i]

C16_Footprint == []C16_Operations /\ [][C16_Step]_vars

\* One invocation issued the two reads and a create; another found the
\* value the first created and returned after its first read.
C16_Witness ==
    \E i, j \in Calls :
        /\ Done(i) /\ Len(log[i]) = 3 /\ log[i][3] = [op |-> "Create", err |-> "nil"]
        /\ Done(j) /\ ret[j] = NilError
        /\ log[j] = <<[op |-> "GetOverride", err |-> "nil"]>>

(***************************************************************************)
(* C17: an invocation of NetworkConfiguration that is at the select when   *)
(* the channel has room or its context is cancelled eventually returns;    *)
(* in particular it does not stay blocked once its context is cancelled,   *)
(* and when it returns from a select whose channel is full it returns      *)
(* ctx.Err().                                                              *)
(***************************************************************************)
C17_CanProceed(i) == npc[i] = "select" /\ (ctxDone[i] \/ Len(ch) < ChanCap)

C17_Cancelled(i) == npc[i] = "select" /\ ctxDone[i]

C17_FullChannelStep ==
    \A i \in Calls :
        (npc[i] = "select" /\ npc'[i] = "returned" /\ Len(ch) = ChanCap)
            => /\ ctxDone[i]
               /\ nret'[i] = Wrap("", "context canceled")
               /\ ch' = ch

C17_HandoffLiveness ==
    /\ \A i \in Calls : C17_CanProceed(i) ~> (npc[i] = "returned")
    /\ \A i \in Calls : C17_Cancelled(i) ~> (npc[i] = "returned")
    /\ [][C17_FullChannelStep]_vars

\* The consumer never received: the channel is still full of what earlier
\* invocations sent, and the last invocation returned ctx.Err().
C17_Witness ==
    /\ received = << >>
    /\ Len(ch) = ChanCap
    /\ \E i \in Calls :
        /\ npc[i] = "returned"
        /\ ctxDone[i]
        /\ nlog[i][Len(nlog[i])] = [step |-> "Done", err |-> "context canceled"]
        /\ nret[i] = Wrap("", "context canceled")

(***************************************************************************)
(* C18: when a call of ensureValidUUID with a positive linodeID that read  *)
(* an invalid or absent hardware UUID has returned nil, the store holds an *)
(* override record whose value is not empty.                               *)
(***************************************************************************)
\* Invocation i read the system information and found no valid UUID in it.
C18_ReadInvalidUUID(i) ==
    /\ HardwareUUIDInvalid
    /\ \/ Issued(i, "GetSystemInformation", "nil")
       \/ Issued(i, "GetSystemInformation", "NotFound")

C18_OverridePostcondition ==
    \A i \in Calls :
        (/\ Done(i)
         /\ ret[i] = NilError
         /\ IsPositive(linodeID[i])
         /\ C18_ReadInvalidUUID(i))
            => /\ override.present
               /\ override.value # EmptyString

(***************************************************************************)
(* C19: for every positive linodeID, generateLinodeUUID(linodeID) is not   *)
(* empty, is not the all-zero UUID and is not invalid for isInvalidUUID;   *)
(* generateLinodeUUID(0) is the all-zero UUID, which isInvalidUUID         *)
(* rejects.  The values ensureValidUUID creates are those of the positive  *)
(* linodeIDs.                                                              *)
(***************************************************************************)
C19_NeverDegenerate ==
    (genResults.called /\ genResults.checked) =>
        \A k \in 1..2 :
            /\ IsPositive(genArgs[k]) =>
                /\ genResults.uuid[k] # EmptyString
                /\ genResults.uuid[k] # ZeroUUID
                /\ ~genResults.invalid[k]
            /\ genArgs[k] = Small(0) =>
                /\ genResults.uuid[k] = ZeroUUID
                /\ genResults.invalid[k]

\* Both functions were applied to 0 and to the smallest positive id.
C19_Witness ==
    /\ genResults.called
    /\ genResults.checked
    /\ genArgs = <<Small(0), Small(1)>>
    /\ genResults.invalid = <<TRUE, FALSE>>

====
